---- MODULE Spec2Model ----
(***************************************************************************)
(* A model of telethon_generator/tl_generator.py (class TLGenerator).      *)
(*                                                                         *)
(* Two state machines share the module:                                    *)
(*   SpecGen   - the output directory under clean_tlobjects and            *)
(*               generate_tlobjects (files written, aborts, registry);     *)
(*   SpecCodec - one generated class at run time: __init__, to_dict,       *)
(*               __bytes__, from_reader and on_response, each computed     *)
(*               the way the code emitted by _write_source_code runs.      *)
(***************************************************************************)
EXTENDS Integers, Sequences, FiniteSets, TLC

VARIABLES
    dirs,       \* directories present under output_dir
    files,      \* path -> what the file holds and which run wrote it
    runs,       \* number of generate_tlobjects calls so far
    sinceClean, \* history: generate_tlobjects calls since the last clean_tlobjects
    last,       \* history: the latest generate_tlobjects call and how it ended
    tlobject,   \* the definition whose generated class is exercised
    call,       \* keyword arguments of the latest __init__ call
    self,       \* attributes of the instance __init__ built
    op,         \* the method of the instance that ran last
    out,        \* what that method returned or raised
    drawn,      \* history: what os.urandom returned to the latest __init__ call
    targs,      \* tlobject.args of the definition whose code is being written
    loaded,     \* history: those args as the parser gave them
    frames,     \* the calls of write_to_bytes and write_read_code in progress
    returned    \* history: the args before and after the call that returned last

genVars == <<dirs, files, runs, sinceClean, last>>
codecVars == <<tlobject, call, self, op, out, drawn>>
writeVars == <<targs, loaded, frames, returned>>
vars == <<dirs, files, runs, sinceClean, last, tlobject, call, self, op, out, drawn,
          targs, loaded, frames, returned>>

----------------------------------------------------------------------------
(* Bounds of the model.                                                    *)

\* generate_tlobjects calls in one behaviour
MaxRuns == 2
\* elements of a vector value handed to __init__ or found in a response
MaxVecLen == 3

----------------------------------------------------------------------------
(* Sequence helpers.                                                       *)

Range(s) == {s[i] : i \in 1..Len(s)}

RECURSIVE Concat(_)
Concat(ss) == IF ss = <<>> THEN <<>> ELSE Head(ss) \o Concat(Tail(ss))

\* the sequences of at most n elements of S
SeqsUpTo(S, n) == UNION {[1..k -> S] : k \in 0..n}

----------------------------------------------------------------------------
(* The definition model handed over by the parser: TLObject and TLArg.     *)

Field(name, type) ==
    [name |-> name, type |-> type,
     is_vector |-> FALSE, use_vector_id |-> FALSE,
     is_flag |-> FALSE, flag_index |-> -1, flag_indicator |-> FALSE,
     generic_definition |-> FALSE, can_be_inferred |-> FALSE,
     skip_constructor_id |-> FALSE]

\* "name:flags.i?type"
Flag(f, i) == [f EXCEPT !.is_flag = TRUE, !.flag_index = i]
\* "name:Vector<type>"
Vector(f) == [f EXCEPT !.is_vector = TRUE, !.use_vector_id = TRUE]
\* "name:vector<type>"
BareVector(f) == [f EXCEPT !.is_vector = TRUE]
\* "flags:#"
FlagIndicator == [Field("flags", "#") EXCEPT !.flag_indicator = TRUE]
\* "{X:Type}"
Generic(name) == [Field(name, "Type") EXCEPT !.generic_definition = TRUE]
Inferred(f) == [f EXCEPT !.can_be_inferred = TRUE]

Definition(id, name, namespace, is_function, result, args) ==
    [id |-> id, name |-> name, namespace |-> namespace,
     is_function |-> is_function, result |-> result, args |-> args]

----------------------------------------------------------------------------
(* The definitions the schemas are made of.  Constructor ids are written   *)
(* in decimal with their hex() in the comment.                             *)

\* 0xa001  peerUser user_id:int = Peer
peerUser ==
    Definition(40961, "peerUser", "", FALSE, "Peer", <<Field("user_id", "int")>>)

\* 0xb0b1  inputPeerUser user_id:int = InputPeer
inputPeerUser ==
    Definition(45233, "inputPeerUser", "", FALSE, "InputPeer",
               <<Field("user_id", "int")>>)

\* 0xc0ffee  coPair flags:# a:flags.0?int b:flags.0?int = CoPair
coPair ==
    Definition(12648430, "coPair", "", FALSE, "CoPair",
               <<FlagIndicator, Flag(Field("a", "int"), 0), Flag(Field("b", "int"), 0)>>)

\* 0x1cb5c416  messages.vecHolder ids:Vector<int> = messages.VecHolder
vecHolder ==
    Definition(481674262, "vecHolder", "messages", FALSE, "messages.VecHolder",
               <<Vector(Field("ids", "int"))>>)

\* 0x1a2b3c4f  peerNotifySettings flags:# silent:flags.0?true
\*             show_previews:flags.1?Bool mute_until:int = PeerNotifySettings
peerNotifySettings ==
    Definition(439041103, "peerNotifySettings", "", FALSE, "PeerNotifySettings",
               <<FlagIndicator, Flag(Field("silent", "true"), 0),
                 Flag(Field("show_previews", "Bool"), 1), Field("mute_until", "int")>>)

\* 0x560f8935  messages.chatFull flags:# tags:flags.0?Vector<int>
\*             users:flags.1?Vector<Peer> owner:Peer = messages.ChatFull
chatFull ==
    Definition(1443858741, "chatFull", "messages", FALSE, "messages.ChatFull",
               <<FlagIndicator, Flag(Vector(Field("tags", "int")), 0),
                 Flag(Vector(Field("users", "Peer")), 1), Field("owner", "Peer")>>)

\* 0x708514af  bareHolder seq:vector<long> = BareHolder
bareHolder ==
    Definition(1887769775, "bareHolder", "", FALSE, "BareHolder",
               <<BareVector(Field("seq", "long"))>>)

\* 0x708514b0  boxHolder inner:%peerUser = BoxHolder
boxHolder ==
    Definition(1887769776, "boxHolder", "", FALSE, "BoxHolder",
               <<[Field("inner", "peerUser") EXCEPT !.skip_constructor_id = TRUE]>>)

\* 0x708514b2  noFlags flags:# count:int = NoFlags
noFlags ==
    Definition(1887769778, "noFlags", "", FALSE, "NoFlags",
               <<FlagIndicator, Field("count", "int")>>)

\* 0x708514b1  peerHolder peer:InputPeer = PeerHolder
peerHolder ==
    Definition(1887769777, "peerHolder", "", FALSE, "PeerHolder",
               <<Field("peer", "InputPeer")>>)

\* 0x2d45690  setPeer flags:# peer:flags.0?InputPeer = Bool
setPeer ==
    Definition(47470224, "setPeer", "", TRUE, "Bool",
               <<FlagIndicator, Flag(Field("peer", "InputPeer"), 0)>>)

\* 0x2d45691  setPeers flags:# peers:flags.0?Vector<InputPeer> = Bool
setPeers ==
    Definition(47470225, "setPeers", "", TRUE, "Bool",
               <<FlagIndicator, Flag(Vector(Field("peers", "InputPeer")), 0)>>)

\* 0x2d45692  sendPeers peers:Vector<InputPeer> = Bool
sendPeers ==
    Definition(47470226, "sendPeers", "", TRUE, "Bool",
               <<Vector(Field("peers", "InputPeer"))>>)

\* 0x2d45687  messages.getIds peer:InputPeer random_id:long = Vector<long>
getIds ==
    Definition(47470215, "getIds", "messages", TRUE, "Vector<long>",
               <<Field("peer", "InputPeer"), Inferred(Field("random_id", "long"))>>)

\* 0x2d45688  getInts limit:int = Vector<int>
getInts ==
    Definition(47470216, "getInts", "", TRUE, "Vector<int>", <<Field("limit", "int")>>)

\* 0x2d45689  getPeers = Vector<Peer>
getPeers == Definition(47470217, "getPeers", "", TRUE, "Vector<Peer>", <<>>)

\* 0x2d4568a  getPeer {X:Type} id:int = Peer
getPeer ==
    Definition(47470218, "getPeer", "", TRUE, "Peer",
               <<Generic("X"), Field("id", "int")>>)

\* 0x2d4568b  messages.forwardMessages id:Vector<long> random_id:Vector<long> = Updates
forwardMessages ==
    Definition(47470219, "forwardMessages", "messages", TRUE, "Updates",
               <<Vector(Field("id", "long")), Inferred(Vector(Field("random_id", "long")))>>)

\* 0x2d4568c  channels.forwardNoId peer:InputPeer random_id:Vector<long> = Updates
forwardNoId ==
    Definition(47470220, "forwardNoId", "channels", TRUE, "Updates",
               <<Field("peer", "InputPeer"), Inferred(Vector(Field("random_id", "long")))>>)

\* 0x2d4568d  messages.forwardScalarId id:int random_id:Vector<long> = Updates
forwardScalarId ==
    Definition(47470221, "forwardScalarId", "messages", TRUE, "Updates",
               <<Field("id", "int"), Inferred(Vector(Field("random_id", "long")))>>)

\* 0x2d4568e  aboutMe action:int = Bool, with action marked as inferable
aboutMe ==
    Definition(47470222, "aboutMe", "", TRUE, "Bool",
               <<Inferred(Field("action", "int"))>>)

\* 0x2d4568f  contacts.badType hash:int = contacts.BadType, hash marked as inferable
badType ==
    Definition(47470223, "badType", "contacts", FALSE, "contacts.BadType",
               <<Inferred(Field("hash", "int"))>>)

\* 0xa001  contacts.dupPeer chat_id:int = Peer, the constructor id of peerUser
dupPeer ==
    Definition(40961, "dupPeer", "contacts", FALSE, "Peer", <<Field("chat_id", "int")>>)

Catalogue ==
    {peerUser, inputPeerUser, coPair, vecHolder, peerNotifySettings, chatFull,
     bareHolder, boxHolder, getIds, getInts, getPeers, getPeer, forwardMessages, forwardNoId,
     forwardScalarId, aboutMe, badType, dupPeer, peerHolder, setPeer, setPeers,
     sendPeers, noFlags}

\* the names of the catalogue in the order of Python's str comparison
NameOrder ==
    <<"aboutMe", "badType", "bareHolder", "boxHolder", "chatFull", "coPair", "dupPeer",
      "forwardMessages", "forwardNoId", "forwardScalarId", "getIds", "getInts",
      "getPeer", "getPeers", "inputPeerUser", "noFlags", "peerHolder",
      "peerNotifySettings",
      "peerUser", "sendPeers", "setPeer", "setPeers", "vecHolder">>

\* what TLParser.parse_file and TLParser.find_layer return for a scheme file
Scheme(tlobjects, layer) == [tlobjects |-> tlobjects, layer |-> layer]

Schemes ==
    {Scheme(<<>>, 70),
     Scheme(<<peerUser>>, 70),
     Scheme(<<vecHolder>>, 72),
     Scheme(<<peerUser, getIds>>, 71),
     Scheme(<<getIds, vecHolder, peerUser, getInts>>, 72),
     Scheme(<<forwardMessages, chatFull>>, 71),
     Scheme(<<peerUser, dupPeer>>, 70),
     Scheme(<<dupPeer, getIds, peerUser>>, 71),
     Scheme(<<aboutMe>>, 70),
     Scheme(<<peerUser, getInts, aboutMe>>, 71),
     Scheme(<<getInts, aboutMe, peerUser>>, 72),
     Scheme(<<forwardNoId, peerUser>>, 71),
     Scheme(<<forwardScalarId, vecHolder>>, 71),
     Scheme(<<getIds, badType, peerUser>>, 72),
     Scheme(<<peerUser, dupPeer, getPeer, aboutMe>>, 72)}

----------------------------------------------------------------------------
(* Generation: _write_self_assigns, _write_source_code, _write_init_py,    *)
(* generate_tlobjects and clean_tlobjects.                                 *)

\* an exception: its class and the definition or field names its arguments carry
NoError == [kind |-> "none", names |-> {}]
Raise(kind, names) == [kind |-> kind, names |-> names]

\* the exception _write_self_assigns(builder, tlobject, arg, args) ends with
SelfAssignError(t, arg, args) ==
    IF arg.can_be_inferred
    THEN IF arg.name = "random_id"
         THEN IF arg.is_vector
              THEN LET ids == SelectSeq(args, LAMBDA a : a.name = "id")
                   IN  IF ids = <<>>
                       THEN Raise("StopIteration", {})   \* next() of an empty generator
                       ELSE IF ~Head(ids).is_vector
                            THEN Raise("ValueError", {t.name})
                            ELSE NoError
              ELSE NoError
         ELSE Raise("ValueError", {arg.name})
    ELSE NoError

\* the arguments a generated class keeps: no flag indicator, no generic definition
KeptArgs(t) ==
    SelectSeq(t.args, LAMBDA a : ~a.flag_indicator /\ ~a.generic_definition)

\* the exception _write_source_code(tlobject, ...) ends with: the first one
\* its loop over the kept arguments meets
SourceCodeError(t) ==
    LET args == KeptArgs(t)
        bad  == {i \in 1..Len(args) : SelfAssignError(t, args[i], args) # NoError}
    IN  IF bad = {} THEN NoError
        ELSE SelfAssignError(t, args[CHOOSE i \in bad : \A j \in bad : i <= j], args)

\* sorted(tlobjects, key=lambda x: x.name)
SortedByName(tlobjects) ==
    Concat([i \in 1..Len(NameOrder) |->
               SelectSeq(tlobjects, LAMBDA t : t.name = NameOrder[i])])

\* the keys of a defaultdict filled by the grouping loop, in insertion order
RECURSIVE Namespaces(_)
Namespaces(tlobjects) ==
    IF tlobjects = <<>> THEN <<>>
    ELSE LET front == Namespaces(SubSeq(tlobjects, 1, Len(tlobjects) - 1))
             ns    == tlobjects[Len(tlobjects)].namespace
         IN  IF ns \in Range(front) THEN front ELSE Append(front, ns)

\* {namespace: [tlobjects]} as the sequence of its items
Grouped(tlobjects) ==
    LET nss == Namespaces(tlobjects)
    IN  [i \in 1..Len(nss) |->
            [ns |-> nss[i],
             tlobjects |-> SelectSeq(tlobjects, LAMBDA t : t.namespace = nss[i])]]

\* what a generated file holds: the run that wrote it, the classes of a
\* namespace module, the LAYER and the dictionary lines of the registry
NamespaceModule(run, classes) ==
    [run |-> run, classes |-> classes, layer |-> -1, entries |-> <<>>]
RegistryModule(run, layer, entries) ==
    [run |-> run, classes |-> <<>>, layer |-> layer, entries |-> entries]

RegistryPath == <<"all_tlobjects.py">>
ModulePath(out_dir, ns) == <<out_dir, IF ns = "" THEN "__init__.py" ELSE ns \o ".py">>

\* the loop over the sorted tlobjects of one namespace: the classes written
\* before the first exception, and that exception
RECURSIVE WriteClasses(_, _)
WriteClasses(sorted, written) ==
    IF sorted = <<>> THEN [classes |-> written, error |-> NoError]
    ELSE IF SourceCodeError(Head(sorted)) # NoError
         THEN [classes |-> written, error |-> SourceCodeError(Head(sorted))]
         ELSE WriteClasses(Tail(sorted), Append(written, Head(sorted).name))

\* _write_init_py(out_dir, depth, namespace_tlobjects, type_constructors):
\* one module per namespace, opened for writing before its classes are generated
RECURSIVE WriteInitPy(_, _, _, _)
WriteInitPy(out_dir, groups, fs, run) ==
    IF groups = <<>> THEN [files |-> fs, error |-> NoError]
    ELSE LET g   == Head(groups)
             w   == WriteClasses(SortedByName(g.tlobjects), <<>>)
             fs2 == (ModulePath(out_dir, g.ns) :> NamespaceModule(run, w.classes)) @@ fs
         IN  IF w.error # NoError THEN [files |-> fs2, error |-> w.error]
             ELSE WriteInitPy(out_dir, Tail(groups), fs2, run)

\* hex(n)[2:] for n >= 0, one string per character
HexChars == <<"0", "1", "2", "3", "4", "5", "6", "7", "8", "9",
              "a", "b", "c", "d", "e", "f">>

RECURSIVE HexDigits(_)
HexDigits(n) ==
    IF n < 16 THEN <<HexChars[n + 1]>>
    ELSE Append(HexDigits(n \div 16), HexChars[(n % 16) + 1])

\* str.zfill(width)
RECURSIVE ZFill(_, _)
ZFill(s, width) == IF Len(s) >= width THEN s ELSE ZFill(<<"0">> \o s, width)

\* the dictionary key written for a constructor id: hex(id), made 10 long
ConstructorKey(id) ==
    LET constructor == <<"0", "x">> \o HexDigits(id)
    IN  IF Len(constructor) # 10
        THEN <<"0", "x">> \o ZFill(SubSeq(constructor, 3, Len(constructor)), 8)
        ELSE constructor

\* the value written for a tlobject: functions|types [.namespace] .ClassName
\* (the last component stands for tlobject.class_name())
ClassPath(t) ==
    <<IF t.is_function THEN "functions" ELSE "types">>
    \o (IF t.namespace # "" THEN <<t.namespace>> ELSE <<>>)
    \o <<t.name>>

\* a registry loop that runs over the types alone
RegistryEntriesOfTypes(tlobjects) ==
    LET types == SelectSeq(tlobjects, LAMBDA t : ~t.is_function)
    IN  [i \in 1..Len(types) |->
            [key |-> ConstructorKey(types[i].id), class |-> ClassPath(types[i])]]

\* the lines of the tlobjects dictionary, one per tlobject, in schema order
RegistryEntries(tlobjects) ==
    [i \in 1..Len(tlobjects) |->
        [key |-> ConstructorKey(tlobjects[i].id), class |-> ClassPath(tlobjects[i])]]

\* generate_tlobjects(scheme_file, import_depth) on the files fs, as run number run:
\* the files afterwards and the exception that ended it, if any
GenerateTlobjects(fs, scheme, run) ==
    LET tlobjects == scheme.tlobjects
        namespace_functions == Grouped(SelectSeq(tlobjects, LAMBDA t : t.is_function))
        namespace_types     == Grouped(SelectSeq(tlobjects, LAMBDA t : ~t.is_function))
        f == WriteInitPy("functions", namespace_functions, fs, run)
        t == WriteInitPy("types", namespace_types, f.files, run)
    IN  IF f.error # NoError THEN f
        ELSE IF t.error # NoError THEN t
        ELSE [files |-> (RegistryPath :>
                           RegistryModule(run, scheme.layer, RegistryEntries(tlobjects)))
                        @@ t.files,
              error |-> NoError]

\* the names clean_tlobjects removes
CleanedNames == {"functions", "types", "all_tlobjects.py"}

\* a clean_tlobjects that forgets the types directory
CleanTlobjectsButTypes(fs) ==
    [p \in {q \in DOMAIN fs : q[1] \notin CleanedNames \ {"types"}} |-> fs[p]]

\* the files left by clean_tlobjects: _rm_if_exists of each name, a directory
\* with everything below it
CleanTlobjects(fs) ==
    [p \in {q \in DOMAIN fs : q[1] \notin CleanedNames} |-> fs[p]]

\* tlobjects_exist()
TlobjectsExist(fs) == RegistryPath \in DOMAIN fs

NoFiles == [p \in {} |-> NamespaceModule(0, <<>>)]
NoScheme == Scheme(<<>>, -1)

InitGen ==
    /\ dirs = {}
    /\ files = NoFiles
    /\ runs = 0
    /\ sinceClean = 0
    /\ last = [scheme |-> NoScheme, error |-> NoError, existed |-> FALSE]

Clean ==
    /\ dirs' = dirs \ CleanedNames
    /\ files' = CleanTlobjects(files)
    /\ sinceClean' = 0
    /\ UNCHANGED <<runs, last>>

Generate(scheme) ==
    /\ runs < MaxRuns
    /\ LET g == GenerateTlobjects(files, scheme, runs + 1)
       IN  /\ files' = g.files
           /\ last' = [scheme |-> scheme, error |-> g.error,
                       existed |-> TlobjectsExist(files)]
    /\ dirs' = dirs \cup {"functions", "types"}
    /\ runs' = runs + 1
    /\ sinceClean' = sinceClean + 1

NextGen ==
    \/ Clean /\ UNCHANGED <<codecVars, writeVars>>
    \/ \E scheme \in Schemes : Generate(scheme) /\ UNCHANGED <<codecVars, writeVars>>

\* no class is exercised
NoObject == Definition(0, "", "", FALSE, "", <<>>)
NoValues == [n \in {} |-> 0]

----------------------------------------------------------------------------
(* Python values of the generated code.  Every value is a record [k, v] so *)
(* that None, False, 0 and [] stay different values.                       *)

None == [k |-> "none", v |-> 0]
BoolV(b) == [k |-> "bool", v |-> b]
IntV(n) == [k |-> "int", v |-> n]
ListV(s) == [k |-> "list", v |-> s]
DictV(f) == [k |-> "dict", v |-> f]
\* an instance of the class generated for definition t
ObjV(t, attrs) == [k |-> "obj", v |-> [class |-> t.name, attrs |-> attrs]]

\* bool(x)
Truthy(x) ==
    CASE x.k = "none" -> FALSE
      [] x.k = "bool" -> x.v
      [] x.k = "int"  -> x.v # 0
      [] x.k = "list" -> Len(x.v) > 0
      [] OTHER        -> TRUE

\* "x is None" alone
NoneOnly(x) == x = None

\* "x is None or x is False"
NoneOrFalse(x) == x = None \/ x = BoolV(FALSE)

----------------------------------------------------------------------------
(* Bytes: struct.pack, int.to_bytes and the reader's fixed-width reads.    *)

\* byte k (0 the lowest) of the two's complement of n
RECURSIVE ByteOf(_, _)
ByteOf(n, k) == IF k = 0 THEN n % 256 ELSE ByteOf(n \div 256, k - 1)

\* struct.pack('<i' | '<I' | '<q', n) and n.to_bytes(size, 'little', signed=True)
Pack(n, size) == [k \in 1..size |-> ByteOf(n, k - 1)]

\* int.from_bytes(bytes, 'little', signed=True), for a value the model's
\* integers hold: at most four significant bytes
RECURSIVE FromLE(_, _, _)
FromLE(bytes, i, acc) ==
    IF i = 0 THEN acc ELSE FromLE(bytes, i - 1, acc * 256 + bytes[i])
Negative(bytes) == bytes[Len(bytes)] >= 128
Fits(bytes) ==
    /\ \A i \in 5..Len(bytes) : bytes[i] = (IF Negative(bytes) THEN 255 ELSE 0)
    /\ Len(bytes) > 4 => ((bytes[4] >= 128) <=> Negative(bytes))
SignedLE(bytes) ==
    LET low == SubSeq(bytes, 1, IF Len(bytes) < 4 THEN Len(bytes) ELSE 4)
        top == low[Len(low)]
    IN  FromLE(low, Len(low) - 1, IF top >= 128 THEN top - 256 ELSE top)

\* a value read from the wire: an integer, or the bytes of one too wide for
\* the model's integers
BigV(bytes) == [k |-> "big", v |-> bytes]
WireInt(bytes) == IF Fits(bytes) THEN IntV(SignedLE(bytes)) ELSE BigV(bytes)

\* b'\x15\xc4\xb5\x1c', the vector constructor 0x1cb5c415 in little endian
VectorTag == <<21, 196, 181, 28>>
\* b'\xb5ur\x99' and b'7\x97y\xbc', boolTrue 0x997275b5 and boolFalse 0xbc799737
BoolTrueBytes == <<181, 117, 114, 153>>
BoolFalseBytes == <<55, 151, 121, 188>>

\* a read of size bytes at offset pos of data: BinaryReader.read_int,
\* read_long and read_large_int, which fail past the end of the data
ReadSigned(data, pos, size) ==
    IF pos + size > Len(data) THEN [ok |-> FALSE, val |-> None, pos |-> pos]
    ELSE [ok |-> TRUE, val |-> WireInt(SubSeq(data, pos + 1, pos + size)),
          pos |-> pos + size]

\* BinaryReader.tgread_bool: the two constructors, anything else fails
TgreadBool(data, pos) ==
    IF pos + 4 > Len(data) THEN [ok |-> FALSE, val |-> None, pos |-> pos]
    ELSE LET b == SubSeq(data, pos + 1, pos + 4)
         IN  IF b = BoolTrueBytes THEN [ok |-> TRUE, val |-> BoolV(TRUE), pos |-> pos + 4]
             ELSE IF b = BoolFalseBytes
                  THEN [ok |-> TRUE, val |-> BoolV(FALSE), pos |-> pos + 4]
                  ELSE [ok |-> FALSE, val |-> None, pos |-> pos]

\* "flags & (1 << index)" as a condition
\* a test of the flags that is true of every index
BitSetOfAny(flags, index) == TRUE

BitSet(flags, index) == (flags \div (2 ^ index)) % 2 = 1

\* the bitwise or of (1 << i) over the indices in a set
RECURSIVE BitsOf(_)
BitsOf(indices) ==
    IF indices = {} THEN 0
    ELSE LET i == CHOOSE j \in indices : TRUE
         IN  (2 ^ i) + BitsOf(indices \ {i})

----------------------------------------------------------------------------
(* The classes at run time: the schema they were generated from and the    *)
(* tlobjects dictionary of all_tlobjects.py.                               *)

CodecScheme ==
    Scheme(<<peerUser, inputPeerUser, coPair, vecHolder, peerNotifySettings,
             chatFull, bareHolder, boxHolder, getIds, getInts, getPeers, getPeer,
             forwardMessages, peerHolder, setPeer, setPeers, sendPeers, noFlags>>, 71)
Classes == Range(CodecScheme.tlobjects)

\* the class a name resolves to
ClassOf(name) == CHOOSE t \in Classes : t.name = name

\* the number a dictionary key spells: int(key, 16)
RECURSIVE HexValue(_)
HexValue(chars) ==
    IF chars = <<>> THEN 0
    ELSE 16 * HexValue(SubSeq(chars, 1, Len(chars) - 1))
         + (CHOOSE d \in 0..15 : HexChars[d + 1] = chars[Len(chars)])

\* the tlobjects dictionary of all_tlobjects.py, from constructor id to class:
\* a dictionary display keeps the last value given for a key
TLObjects ==
    LET entries == RegistryEntries(CodecScheme.tlobjects)
        KeyOf(j) == HexValue(SubSeq(entries[j].key, 3, 10))
        Latest(id) == CHOOSE j \in 1..Len(entries) :
                         /\ KeyOf(j) = id
                         /\ \A h \in 1..Len(entries) : KeyOf(h) = id => h <= j
    IN  [id \in {KeyOf(j) : j \in 1..Len(entries)} |->
            CHOOSE t \in Classes : ClassPath(t) = entries[Latest(id)].class]

----------------------------------------------------------------------------
(* __init__ of a generated class: its signature and its assignments.       *)

\* tlobject.sorted_args(): the arguments with flags and inferable ones last
SortedArgs(t) ==
    SelectSeq(t.args, LAMBDA a : ~(a.is_flag \/ a.can_be_inferred))
    \o SelectSeq(t.args, LAMBDA a : a.is_flag \/ a.can_be_inferred)

\* a signature that gives every parameter the default None
InitParamsAllOptional(t) ==
    LET args == SelectSeq(SortedArgs(t),
                          LAMBDA a : ~a.flag_indicator /\ ~a.generic_definition)
    IN  [i \in 1..Len(args) |-> [name |-> args[i].name, optional |-> TRUE]]

\* the parameters of "def __init__(self, ...)": the sorted arguments without
\* flag indicator and generic definitions, "name=None" for the optional ones
InitParams(t) ==
    LET args == SelectSeq(SortedArgs(t),
                          LAMBDA a : ~a.flag_indicator /\ ~a.generic_definition)
    IN  [i \in 1..Len(args) |->
            [name |-> args[i].name,
             optional |-> ~(~args[i].is_flag /\ ~args[i].can_be_inferred)]]

\* an auto-cast written for types as it is for functions
GetInputCodeOfAnyClass(t, arg) ==
    CASE arg.type = "InputPeer"    -> "get_input_peer"
      [] arg.type = "InputChannel" -> "get_input_channel"
      [] arg.type = "InputUser"    -> "get_input_user"
      [] arg.type = "InputMedia"   -> "get_input_media"
      [] arg.type = "InputPhoto"   -> "get_input_photo"
      [] OTHER                     -> ""

\* the get_input_* function written for an argument type, "" when none is
GetInputCode(t, arg) ==
    IF ~t.is_function THEN ""
    ELSE CASE arg.type = "InputPeer"    -> "get_input_peer"
           [] arg.type = "InputChannel" -> "get_input_channel"
           [] arg.type = "InputUser"    -> "get_input_user"
           [] arg.type = "InputMedia"   -> "get_input_media"
           [] arg.type = "InputPhoto"   -> "get_input_photo"
           [] OTHER                     -> ""

\* utils.get_input_peer and its siblings: an object of the Input* type is
\* returned as it is, a peerUser becomes the inputPeerUser of the same user
GetInput(code, x) ==
    IF x.k = "obj" /\ x.v.class = "peerUser" /\ code = "get_input_peer"
    THEN ObjV(inputPeerUser, x.v.attrs)
    ELSE x

\* os.urandom(size): the byte strings the randomness source is taken to give
Urandom(size) ==
    {[i \in 1..size |-> 255],
     [i \in 1..size |-> IF i = size THEN 9 ELSE 0]}

\* int.from_bytes(bytes, 'big', signed=True)
FromBytesBig(bytes) ==
    SignedLE([i \in 1..Len(bytes) |-> bytes[Len(bytes) + 1 - i]])

\* the value of parameter name in a call with keyword arguments kw
Param(kw, name) == IF name \in DOMAIN kw THEN kw[name] ELSE None

\* the values os.urandom has to give to a call: one per inferred random_id
DrawsNeeded(t, kw) ==
    LET inferred == {a \in Range(KeptArgs(t)) :
                        a.can_be_inferred /\ Param(kw, a.name) = None}
    IN  IF inferred = {} THEN 0
        ELSE IF \E a \in inferred : a.is_vector
             THEN Len(Param(kw, "id").v)
             ELSE 1
\* a randomness source asked for 4 bytes whatever the type
DrawSizeOfInt(t) == 4

DrawSize(t) ==
    IF \E a \in Range(t.args) : a.can_be_inferred /\ a.type = "long" THEN 8 ELSE 4
Draws(t, kw) == [1..DrawsNeeded(t, kw) -> Urandom(DrawSize(t))]

\* what the line written by _write_self_assigns for arg stores in self.<name>;
\* rnd are the byte strings os.urandom returns, in order
SelfAssign(t, arg, kw, rnd) ==
    LET x == Param(kw, arg.name)
    IN  IF arg.can_be_inferred
        THEN IF x # None THEN x
             ELSE IF arg.is_vector
                  THEN ListV([i \in 1..Len(Param(kw, "id").v) |->
                                 IntV(FromBytesBig(rnd[i]))])
                  ELSE IntV(FromBytesBig(rnd[1]))
        ELSE IF GetInputCode(t, arg) # ""
        THEN IF arg.is_flag /\ ~Truthy(x) THEN None
             ELSE IF arg.is_vector
                  THEN ListV([i \in 1..Len(x.v) |-> GetInput(GetInputCode(t, arg), x.v[i])])
                  ELSE GetInput(GetInputCode(t, arg), x)
        ELSE x

\* the attributes of the instance after __init__(**kw)
InitObject(t, kw, rnd) ==
    LET args  == KeptArgs(t)
        names == {args[i].name : i \in 1..Len(args)}
        own   == [n \in names |->
                     SelfAssign(t, CHOOSE a \in Range(args) : a.name = n, kw, rnd)]
    IN  IF t.is_function
        THEN own @@ [n \in {"result", "content_related"} |->
                        IF n = "result" THEN None ELSE BoolV(TRUE)]
        ELSE own

----------------------------------------------------------------------------
(* The values a caller passes.                                             *)

LeafObjects(t) == {ObjV(t, [n \in {"user_id"} |-> IntV(7)])}

\* one argument of the given type, alone or as an element of a vector
ScalarValues(t, type, in_vector) ==
    CASE type = "int"  -> IF in_vector THEN {IntV(1), IntV(2), IntV(3)}
                          ELSE {IntV(-2), IntV(0), IntV(5)}
      [] type = "long" -> IF in_vector THEN {IntV(-3)} ELSE {IntV(-3), IntV(7)}
      [] type \in {"Bool", "true"} -> {BoolV(TRUE), BoolV(FALSE)}
      [] type = "InputPeer" ->
            LeafObjects(inputPeerUser) \cup LeafObjects(peerUser)
      [] type = "Peer" -> LeafObjects(peerUser)
      [] OTHER -> LeafObjects(ClassOf(type))

ValuesOf(t, arg) ==
    IF arg.is_vector
    THEN {ListV(s) : s \in SeqsUpTo(ScalarValues(t, arg.type, TRUE), MaxVecLen)}
    ELSE ScalarValues(t, arg.type, FALSE)

\* the calls __init__ accepts: a value for every required parameter, and
\* for any of the optional ones
RECURSIVE CallsOver(_, _, _)
CallsOver(t, params, i) ==
    IF i > Len(params) THEN {NoValues}
    ELSE LET rest == CallsOver(t, params, i + 1)
             arg  == CHOOSE a \in Range(t.args) : a.name = params[i].name
             with == {(params[i].name :> x) @@ kw : x \in ValuesOf(t, arg), kw \in rest}
         IN  IF params[i].optional THEN rest \cup with ELSE with
Calls(t) == CallsOver(t, InitParams(t), 1)

----------------------------------------------------------------------------
(* to_dict and __bytes__ of a generated class.                             *)

base_types == {"string", "bytes", "int", "long", "int128", "int256",
               "double", "Bool", "true", "date"}

\* to_dict(self, recursive) of an instance of t with attributes attrs
RECURSIVE ToDict(_, _, _)
ToDict(t, attrs, recursive) ==
    LET args == KeptArgs(t)
        ObjToDict(x) == ToDict(ClassOf(x.v.class), x.v.attrs, TRUE)
        Entry(arg) ==
            LET x == attrs[arg.name]
            IN  IF arg.type \in base_types
                THEN IF arg.is_vector
                     THEN (IF x = None THEN ListV(<<>>) ELSE x)
                     ELSE x
                ELSE IF arg.is_vector
                     THEN IF recursive
                          THEN (IF x = None THEN ListV(<<>>)
                                ELSE ListV([i \in 1..Len(x.v) |->
                                               IF x.v[i] = None THEN None
                                               ELSE ObjToDict(x.v[i])]))
                          ELSE x
                     ELSE IF recursive
                          THEN (IF x = None THEN None ELSE ObjToDict(x))
                          ELSE x
    IN  DictV([n \in {args[i].name : i \in 1..Len(args)} |->
                  Entry(CHOOSE a \in Range(args) : a.name = n)])

\* the assertion at the top of __bytes__: of the flag arguments that share a
\* flag index, all are true-y or all are false-y
AssertionHolds(t, attrs) ==
    \A index \in {a.flag_index : a \in {b \in Range(t.args) : b.is_flag}} :
        LET ra == {a \in Range(t.args) : a.is_flag /\ a.flag_index = index}
        IN  Cardinality(ra) > 1 =>
                \/ \A a \in ra : Truthy(attrs[a.name])
                \/ \A a \in ra : ~Truthy(attrs[a.name])

Written(bytes) == [ok |-> TRUE, bytes |-> bytes]
AssertionError == [ok |-> FALSE, bytes |-> <<>>]
Join(parts) ==
    IF \A i \in 1..Len(parts) : parts[i].ok
    THEN Written(Concat([i \in 1..Len(parts) |-> parts[i].bytes]))
    ELSE AssertionError

\* a vector written with its count ahead of the vector constructor
VectorHeaderCountFirst(arg, count) ==
    Pack(count, 4) \o (IF arg.use_vector_id THEN VectorTag ELSE <<>>)

\* what precedes the elements of a vector: the vector constructor when
\* use_vector_id, then struct.pack('<i', len(name))
VectorHeader(arg, count) ==
    (IF arg.use_vector_id THEN VectorTag ELSE <<>>) \o Pack(count, 4)

\* the value of the expression write_to_bytes(builder, arg, args, name) writes,
\* x being the value of name and attrs the attributes of self;
\* ObjectBytes(x) is bytes(x) of an instance
RECURSIVE WriteToBytes(_, _, _, _), ObjectBytes(_)
WriteToBytes(arg, args, x, attrs) ==
    IF arg.generic_definition THEN Written(<<>>)
    ELSE IF arg.is_flag /\ arg.type = "true" THEN Written(<<>>)
    ELSE IF arg.is_flag /\ NoneOrFalse(x) THEN Written(<<>>)
    ELSE IF arg.is_vector
    THEN LET element == [arg EXCEPT !.is_vector = FALSE, !.is_flag = FALSE]
         IN  Join(<<Written(VectorHeader(arg, Len(x.v))),
                    Join([i \in 1..Len(x.v) |->
                             WriteToBytes(element, args, x.v[i], attrs)])>>)
    ELSE IF arg.flag_indicator
    THEN IF ~\E f \in Range(args) : f.is_flag
         THEN Written(<<0, 0, 0, 0>>)
         ELSE Written(Pack(BitsOf({f.flag_index : f \in
                                     {g \in Range(args) :
                                         g.is_flag /\ ~NoneOrFalse(attrs[g.name])}}), 4))
    ELSE CASE arg.type = "int"    -> Written(Pack(x.v, 4))
           [] arg.type = "long"   -> Written(Pack(x.v, 8))
           [] arg.type = "int128" -> Written(Pack(x.v, 16))
           [] arg.type = "int256" -> Written(Pack(x.v, 32))
           [] arg.type = "Bool"   ->
                Written(IF Truthy(x) THEN BoolTrueBytes ELSE BoolFalseBytes)
           [] arg.type = "true"   -> Written(<<>>)
           [] OTHER               -> ObjectBytes(x)

\* __bytes__(self) of an instance of t with attributes attrs
Bytes(t, attrs) ==
    IF ~AssertionHolds(t, attrs) THEN AssertionError
    ELSE Join(<<Written(Pack(t.id, 4))>>
              \o [i \in 1..Len(t.args) |->
                     WriteToBytes(t.args[i], t.args,
                                  IF t.args[i].name \in DOMAIN attrs
                                  THEN attrs[t.args[i].name] ELSE None,
                                  attrs)])

ObjectBytes(x) == Bytes(ClassOf(x.v.class), x.v.attrs)

----------------------------------------------------------------------------
(* from_reader and on_response of a generated class.  A read is a record   *)
(* [ok, val, pos]: whether the reader had the bytes, the value, and the    *)
(* offset after it.                                                        *)

Failed(pos) == [ok |-> FALSE, val |-> None, pos |-> pos]
Got(val, pos) == [ok |-> TRUE, val |-> val, pos |-> pos]

\* ReadCode: the value the lines written by write_read_code(builder, arg, args,
\*   name) leave in name, flags being the local variable of that name;
\* ReadArgs: the local variables of from_reader after its reads, as the
\*   keyword arguments of its call of the class;
\* TgreadObject: reader.tgread_object(), which reads a constructor id and calls
\*   from_reader of the class the tlobjects dictionary holds for it
RECURSIVE ReadCode(_, _, _, _), ReadElements(_, _, _, _, _, _),
          ReadArgs(_, _, _, _, _, _), TgreadObject(_, _)

\* one more round of "for _ in range(reader.read_int())", x the element read
AppendElement(arg, data, flags, count, acc, x) ==
    IF ~x.ok THEN Failed(x.pos)
    ELSE ReadElements(arg, data, x.pos, flags, count - 1, Append(acc, x.val))

ReadElements(arg, data, pos, flags, count, acc) ==
    IF count <= 0 THEN Got(ListV(acc), pos)
    ELSE AppendElement(arg, data, flags, count, acc,
                       ReadCode(arg, data, pos, flags))

\* the elements of a vector, count the result of reader.read_int()
CountedElements(arg, data, pos, flags, count) ==
    IF ~count.ok THEN Failed(pos)
    ELSE ReadElements([arg EXCEPT !.is_vector = FALSE], data, count.pos,
                      flags, count.val.v, <<>>)

\* a vector, tag the result of "reader.read_int()  # Vector id" when the
\* argument has one
TaggedElements(arg, data, pos, flags, tag) ==
    IF ~tag.ok THEN Failed(pos)
    ELSE CountedElements(arg, data, pos, flags, ReadSigned(data, tag.pos, 4))

\* Class.from_reader(reader)'s "return Class(...)", r its reads
Instance(class, r) ==
    IF ~r.ok THEN Failed(r.pos)
    ELSE Got(ObjV(class, InitObject(class, r.val, <<>>)), r.pos)

ReadCode(arg, data, pos, flags) ==
    IF arg.is_flag
    THEN IF arg.type = "true" THEN Got(BoolV(BitSet(flags, arg.flag_index)), pos)
         ELSE IF BitSet(flags, arg.flag_index)
              THEN ReadCode([arg EXCEPT !.is_flag = FALSE], data, pos, flags)
              ELSE Got(None, pos)
    ELSE IF arg.is_vector
    THEN TaggedElements(arg, data, pos, flags,
                        IF arg.use_vector_id THEN ReadSigned(data, pos, 4)
                        ELSE Got(None, pos))
    ELSE CASE arg.type = "int"    -> ReadSigned(data, pos, 4)
           [] arg.type = "long"   -> ReadSigned(data, pos, 8)
           [] arg.type = "int128" -> ReadSigned(data, pos, 16)
           [] arg.type = "int256" -> ReadSigned(data, pos, 32)
           [] arg.type = "Bool"   -> TgreadBool(data, pos)
           [] arg.type = "true"   -> Got(BoolV(TRUE), pos)
           [] OTHER ->
                IF ~arg.skip_constructor_id THEN TgreadObject(data, pos)
                ELSE Instance(ClassOf(arg.type),
                              ReadArgs(ClassOf(arg.type), 1, data, pos, 0, NoValues))

\* from_reader after "flags = reader.read_int()", f that read
ReadArgsAfterFlags(t, i, data, pos, kw, f) ==
    IF ~f.ok THEN Failed(pos)
    ELSE ReadArgs(t, i + 1, data, f.pos, f.val.v, kw)

\* from_reader after the read of argument arg, x that read
ReadArgsAfter(t, i, data, flags, kw, arg, x) ==
    IF ~x.ok THEN Failed(x.pos)
    ELSE ReadArgs(t, i + 1, data, x.pos, flags, (arg.name :> x.val) @@ kw)

ReadArgs(t, i, data, pos, flags, kw) ==
    IF i > Len(t.args) THEN Got(kw, pos)
    ELSE IF t.args[i].generic_definition
    THEN ReadArgs(t, i + 1, data, pos, flags, kw)
    ELSE IF t.args[i].flag_indicator /\ ~t.args[i].is_flag /\ ~t.args[i].is_vector
    THEN ReadArgsAfterFlags(t, i, data, pos, kw, ReadSigned(data, pos, 4))
    ELSE ReadArgsAfter(t, i, data, flags, kw, t.args[i],
                       ReadCode(t.args[i], data, pos, flags))

\* tgread_object after its read of the constructor id
Dispatch(data, pos, id) ==
    IF ~id.ok THEN Failed(pos)
    ELSE IF id.val.v \notin DOMAIN TLObjects THEN Failed(pos)
    ELSE Instance(TLObjects[id.val.v],
                  ReadArgs(TLObjects[id.val.v], 1, data, id.pos, 0, NoValues))

TgreadObject(data, pos) == Dispatch(data, pos, ReadSigned(data, pos, 4))

\* reader.tgread_vector(): the vector constructor, a count, that many objects
RECURSIVE TgreadObjects(_, _, _, _)
AppendObject(data, count, acc, x) ==
    IF ~x.ok THEN Failed(x.pos)
    ELSE TgreadObjects(data, x.pos, count - 1, Append(acc, x.val))
TgreadObjects(data, pos, count, acc) ==
    IF count <= 0 THEN Got(ListV(acc), pos)
    ELSE AppendObject(data, count, acc, TgreadObject(data, pos))
CountedObjects(data, pos, count) ==
    IF ~count.ok THEN Failed(pos)
    ELSE TgreadObjects(data, count.pos, count.val.v, <<>>)
TgreadVector(data, pos) ==
    IF pos + 4 > Len(data) \/ SubSeq(data, pos + 1, pos + 4) # VectorTag
    THEN Failed(pos)
    ELSE CountedObjects(data, pos, ReadSigned(data, pos + 4, 4))

\* the reads of [reader.read_x() for _ in range(count)], size bytes each
RECURSIVE ReadMany(_, _, _, _, _)
AppendRead(data, size, count, acc, x) ==
    IF ~x.ok THEN Failed(x.pos)
    ELSE ReadMany(data, x.pos, size, count - 1, Append(acc, x.val))
ReadMany(data, pos, size, count, acc) ==
    IF count <= 0 THEN Got(ListV(acc), pos)
    ELSE AppendRead(data, size, count, acc, ReadSigned(data, pos, size))

\* str.startswith
StartsWith(s, prefix) ==
    Len(s) >= Len(prefix) /\ SubSeq(s, 1, Len(prefix)) = prefix

\* the list read after the count of a Vector<int> or Vector<long> result
CountedReads(data, size, count) ==
    IF ~count.ok THEN Failed(0)
    ELSE IF count.val.k = "big"
    THEN (IF Negative(count.val.v) THEN Got(ListV(<<>>), count.pos)
          ELSE Failed(count.pos))   \* more reads than the data has bytes
    ELSE ReadMany(data, count.pos, size, count.val.v, <<>>)

\* the count read after "reader.read_int()  # Vector id", id that read
CountAfterId(data, count_size, size, id) ==
    IF ~id.ok THEN Failed(0)
    ELSE CountedReads(data, size, ReadSigned(data, id.pos, count_size))

\* "reader.read_int()  # Vector id", a count of count_size bytes, then
\* that many values of size bytes
ReadPlainVector(data, count_size, size) ==
    CountAfterId(data, count_size, size, ReadSigned(data, 0, 4))

\* self.result = r, read with the reader methods calls
Result(r, calls) == [ok |-> r.ok, result |-> r.val, calls |-> calls]

\* a Vector<long> branch that reads its count with read_int
RequestResultIntCount(t, data) ==
    IF t.result = "Vector<long>"
    THEN Result(ReadPlainVector(data, 4, 8), {"read_int", "read_long"})
    ELSE Result(TgreadObject(data, 0), {"tgread_object"})

\* what the lines written by write_request_result_code(builder, tlobject)
\* store in self.result, and the reader methods they call
RequestResult(t, data) ==
    IF StartsWith(t.result, "Vector<")
    THEN IF t.result = "Vector<int>"
         THEN Result(ReadPlainVector(data, 4, 4), {"read_int"})
         ELSE IF t.result = "Vector<long>"
         THEN Result(ReadPlainVector(data, 8, 8), {"read_int", "read_long"})
         ELSE Result(TgreadVector(data, 0), {"tgread_vector"})
    ELSE Result(TgreadObject(data, 0), {"tgread_object"})

----------------------------------------------------------------------------
(* The state machine of one generated class at run time.                   *)

\* the byte strings a reader hands to on_response
PlainVector(tag, xs, count_size, size) ==
    tag \o Pack(Len(xs), count_size)
        \o Concat([i \in 1..Len(xs) |-> Pack(xs[i], size)])
ObjectVector(xs) ==
    VectorTag \o Pack(Len(xs), 4)
              \o Concat([i \in 1..Len(xs) |-> ObjectBytes(xs[i]).bytes])
ResponseLongs == {-3, 7}
Responses ==
    {PlainVector(VectorTag, xs, 8, 8) : xs \in SeqsUpTo(ResponseLongs, MaxVecLen)}
    \cup {PlainVector(VectorTag, xs, 4, 4) : xs \in SeqsUpTo(ResponseLongs, 2)}
    \cup {PlainVector(<<0, 0, 0, 0>>, <<7>>, 8, 8), <<>>, VectorTag}
    \cup {ObjectBytes(x).bytes : x \in LeafObjects(peerUser)}
    \cup {ObjectVector(xs) : xs \in SeqsUpTo(LeafObjects(peerUser), 2)}

\* x = Class(**kw)
Construct(t, kw, rnd) ==
    /\ tlobject' = t
    /\ call' = kw
    /\ self' = InitObject(t, kw, rnd)
    /\ drawn' = rnd
    /\ op' = "__init__"
    /\ out' = NoValues

\* x.to_dict(recursive)
CallToDict(recursive) ==
    /\ op # "none"
    /\ op' = "to_dict"
    /\ out' = [recursive |-> recursive, dict |-> ToDict(tlobject, self, recursive)]
    /\ UNCHANGED <<tlobject, call, self, drawn>>

\* bytes(x)
CallBytes ==
    /\ op # "none"
    /\ op' = "__bytes__"
    /\ out' = Bytes(tlobject, self)
    /\ UNCHANGED <<tlobject, call, self, drawn>>

\* what from_reader returns or raises, r its reads
Returned(r) ==
    \/ /\ r.ok
       /\ \E rnd \in Draws(tlobject, r.val) :
             out' = [data |-> out.bytes, ok |-> TRUE, pos |-> r.pos,
                     kw |-> r.val,
                     attrs |-> InitObject(tlobject, r.val, rnd)]
    \/ /\ ~r.ok
       /\ out' = [data |-> out.bytes, ok |-> FALSE, pos |-> r.pos,
                  kw |-> NoValues, attrs |-> NoValues]

\* Class.from_reader(reader) on the bytes bytes(x) gave, the reader standing
\* after the constructor id
CallFromReader ==
    /\ op = "__bytes__" /\ out.ok
    /\ Returned(ReadArgs(tlobject, 1, out.bytes, 4, 0, NoValues))
    /\ op' = "from_reader"
    /\ UNCHANGED <<tlobject, call, self, drawn>>

\* on_response storing the result r, or raising
Respond(data, r) ==
    /\ out' = [data |-> data, ok |-> r.ok, calls |-> r.calls]
    /\ self' = IF r.ok THEN [self EXCEPT !["result"] = r.result] ELSE self

\* x.on_response(reader), of a request
CallOnResponse(data) ==
    /\ op # "none"
    /\ Respond(data, RequestResult(tlobject, data))
    /\ op' = "on_response"
    /\ UNCHANGED <<tlobject, call, drawn>>

NextCodec ==
    \/ /\ op = "none"   \* a behaviour follows one instance
       /\ \E t \in Classes : \E kw \in Calls(t) : \E rnd \in Draws(t, kw) :
             Construct(t, kw, rnd) /\ UNCHANGED <<genVars, writeVars>>
    \/ \E recursive \in BOOLEAN : CallToDict(recursive) /\ UNCHANGED <<genVars, writeVars>>
    \/ CallBytes /\ UNCHANGED <<genVars, writeVars>>
    \/ CallFromReader /\ UNCHANGED <<genVars, writeVars>>
    \/ /\ tlobject.is_function
       /\ \E data \in Responses : CallOnResponse(data) /\ UNCHANGED <<genVars, writeVars>>

InitCodec ==
    /\ tlobject = NoObject
    /\ call = NoValues
    /\ self = NoValues
    /\ op = "none"
    /\ out = NoValues
    /\ drawn = <<>>

----------------------------------------------------------------------------
(* write_to_bytes and write_read_code as they run at generation time: the  *)
(* markers of the argument they are given are switched off around the      *)
(* recursive call for the elements of a vector and the body of a flag.     *)
(* A frame is one call: the function, the index of its argument, where it  *)
(* stands, its locals old_flag and was_flag, and the args it was given.    *)

\* the arguments the two functions are exercised on: every combination of
\* the markers and a few types, each next to a second argument
ArgShapes ==
    {[Field("x", type) EXCEPT !.is_vector = v, !.use_vector_id = v,
                              !.is_flag = f, !.flag_index = IF f THEN 0 ELSE -1,
                              !.flag_indicator = ind, !.generic_definition = g] :
        type \in {"int", "true", "Peer"}, v \in BOOLEAN, f \in BOOLEAN,
        ind \in BOOLEAN, g \in BOOLEAN}
ArgLists ==
    {<<a, Flag(Vector(Field("other", "long")), 1)>> : a \in ArgShapes}
    \cup {t.args : t \in {u \in Catalogue : Len(u.args) > 0}}

NoReturn == [fn |-> "none", i |-> 0, before |-> <<>>, after |-> <<>>]
Frame(fn, i, given) ==
    [fn |-> fn, i |-> i, pc |-> "enter", old_flag |-> FALSE, was_flag |-> FALSE,
     given |-> given]
Top == frames[Len(frames)]

\* "return": the call on top ends, leaving the args as now
Return(now) ==
    /\ targs' = now
    /\ frames' = SubSeq(frames, 1, Len(frames) - 1)
    /\ returned' = [fn |-> Top.fn, i |-> Top.i, before |-> Top.given, after |-> now]

\* a recursive call on the same argument, the caller left at pc
Recurse(now, caller) ==
    /\ targs' = now
    /\ frames' = Append([frames EXCEPT ![Len(frames)] = caller],
                        Frame(Top.fn, Top.i, now))
    /\ UNCHANGED returned

\* a restore that puts back is_vector and forgets old_flag
RestoreVectorAlone(arg, old_flag) == [arg EXCEPT !.is_vector = TRUE]

\* "arg.is_vector = True; arg.is_flag = old_flag"
RestoreVector(arg, old_flag) ==
    [arg EXCEPT !.is_vector = TRUE, !.is_flag = old_flag]

\* one stretch of write_to_bytes(builder, arg, args, name): up to its
\* recursive call or its return
WriteToBytesStep ==
    /\ frames # <<>> /\ Top.fn = "write_to_bytes"
    /\ LET arg == targs[Top.i]
       IN  IF Top.pc = "enter"
           THEN IF arg.generic_definition \/ (arg.is_flag /\ arg.type = "true")
                THEN Return(targs)
                ELSE IF arg.is_vector
                THEN Recurse([targs EXCEPT ![Top.i] =
                                 [arg EXCEPT !.is_vector = FALSE, !.is_flag = FALSE]],
                             [Top EXCEPT !.pc = "in_vector", !.old_flag = arg.is_flag])
                ELSE Return(targs)
           ELSE Return([targs EXCEPT ![Top.i] = RestoreVector(arg, Top.old_flag)])
    /\ UNCHANGED loaded

\* one stretch of write_read_code(builder, arg, args, name)
WriteReadCodeStep ==
    /\ frames # <<>> /\ Top.fn = "write_read_code"
    /\ LET arg == targs[Top.i]
           unflagged == [arg EXCEPT !.is_flag = FALSE]
       IN  CASE Top.pc = "enter" ->
                  IF arg.generic_definition \/ (arg.is_flag /\ arg.type = "true")
                  THEN Return(targs)
                  ELSE IF arg.is_vector
                  THEN Recurse([targs EXCEPT ![Top.i] =
                                   [unflagged EXCEPT !.is_vector = FALSE]],
                               [Top EXCEPT !.pc = "in_vector", !.was_flag = arg.is_flag])
                  ELSE /\ targs' = [targs EXCEPT ![Top.i] = unflagged]
                       /\ frames' = [frames EXCEPT ![Len(frames)] =
                                        [Top EXCEPT !.pc = "end", !.was_flag = arg.is_flag]]
                       /\ UNCHANGED returned
             [] Top.pc = "in_vector" ->
                  /\ targs' = [targs EXCEPT ![Top.i] = [arg EXCEPT !.is_vector = TRUE]]
                  /\ frames' = [frames EXCEPT ![Len(frames)] = [Top EXCEPT !.pc = "end"]]
                  /\ UNCHANGED returned
             [] Top.pc = "end" ->
                  Return(IF Top.was_flag
                         THEN [targs EXCEPT ![Top.i] = [arg EXCEPT !.is_flag = TRUE]]
                         ELSE targs)
    /\ UNCHANGED loaded

\* _write_source_code is given a definition
LoadArgs(given) ==
    /\ frames = <<>>
    /\ targs' = given /\ loaded' = given
    /\ returned' = NoReturn
    /\ UNCHANGED frames

\* the loops of _write_source_code call fn on argument i
CallWriter(fn, i) ==
    /\ frames = <<>>
    /\ frames' = <<Frame(fn, i, targs)>>
    /\ UNCHANGED <<targs, loaded, returned>>

NextWrite ==
    \/ \E given \in ArgLists : LoadArgs(given) /\ UNCHANGED <<genVars, codecVars>>
    \/ \E fn \in {"write_to_bytes", "write_read_code"} : \E i \in 1..Len(targs) :
          CallWriter(fn, i) /\ UNCHANGED <<genVars, codecVars>>
    \/ WriteToBytesStep /\ UNCHANGED <<genVars, codecVars>>
    \/ WriteReadCodeStep /\ UNCHANGED <<genVars, codecVars>>

InitWrite ==
    /\ targs = <<>> /\ loaded = <<>>
    /\ frames = <<>>
    /\ returned = NoReturn

----------------------------------------------------------------------------
(* The specifications.                                                     *)

Init == InitGen /\ InitCodec /\ InitWrite
Next == NextGen \/ NextCodec \/ NextWrite

\* the output directory under clean_tlobjects and generate_tlobjects
SpecGen == Init /\ [][NextGen]_vars
\* one generated class at run time
SpecCodec == Init /\ [][NextCodec]_vars
\* write_to_bytes and write_read_code at work on the args of a definition
SpecWrite == Init /\ [][NextWrite]_vars

----------------------------------------------------------------------------
(* Properties of generation.                                               *)

Ran == runs > 0
\* the output of the latest run has not been cleaned since
RunStands == runs > 0 /\ sinceClean > 0
LastDefs == last.scheme.tlobjects
DuplicateIds(tlobjects) ==
    \E i, j \in 1..Len(tlobjects) : i # j /\ tlobjects[i].id = tlobjects[j].id
RegistryWrittenByLastRun ==
    TlobjectsExist(files) /\ files[RegistryPath].run = runs

\* C3: a generation run given two definitions with one constructor id ends
\* with an exception and does not write a registry.
C3_DuplicateIdAborts ==
    (RunStands /\ DuplicateIds(LastDefs)) =>
        (last.error # NoError /\ ~RegistryWrittenByLastRun)

\* What the code does with such a schema: when no other exception ends the run,
\* the registry is written with one line per definition, so two lines carry
\* the same key.
C3_DuplicateIdWritten ==
    /\ RunStands /\ DuplicateIds(LastDefs) /\ last.error = NoError
    /\ RegistryWrittenByLastRun
    /\ \E i, j \in 1..Len(files[RegistryPath].entries) :
          /\ i # j
          /\ files[RegistryPath].entries[i].key = files[RegistryPath].entries[j].key
          /\ files[RegistryPath].entries[i].class # files[RegistryPath].entries[j].class

\* C5: after any sequence of generation runs every file in the output
\* directory was written by the latest run.
C5_OnlyLatestRun ==
    Ran => \A p \in DOMAIN files : files[p].run = runs

\* C5, amended: when clean_tlobjects ran before the latest generation run, with
\* no other run in between, every file in the output directory was written by
\* that run.
C5_OnlyLatestRunAfterClean ==
    (Ran /\ sinceClean <= 1) => \A p \in DOMAIN files : files[p].run = runs

\* a cleaned directory was regenerated and holds modules and a registry
C5_Witness ==
    /\ runs = 2 /\ sinceClean = 1
    /\ Cardinality(DOMAIN files) >= 3
    /\ last.error = NoError

\* the fields of a definition the claim calls fatal: inferable and not named
\* random_id, or a vector random_id with no sibling vector field named id
FatalFields(t) ==
    {a \in Range(t.args) :
        /\ a.can_be_inferred
        /\ \/ a.name # "random_id"
           \/ /\ a.is_vector
              /\ ~\E b \in Range(t.args) : b.name = "id" /\ b.is_vector}
FatalDefs(tlobjects) == {t \in Range(tlobjects) : FatalFields(t) # {}}

\* C6: a run over a schema with a fatal definition ends with an error that
\* names an offending definition or field, and that run does not write the
\* registry, so tlobjects_exist() stays false if it was false before.
C6_FatalNamedAndNoRegistry ==
    (Ran /\ FatalDefs(LastDefs) # {}) =>
        /\ last.error # NoError
        /\ \E t \in FatalDefs(LastDefs) :
              last.error.names \cap ({t.name} \cup {a.name : a \in FatalFields(t)}) # {}
        /\ ~RegistryWrittenByLastRun
        /\ (~last.existed => ~TlobjectsExist(files))

\* The part of C6 the code keeps: such a run ends with an exception before the
\* registry is written.
C6_FatalAbortsBeforeRegistry ==
    (Ran /\ FatalDefs(LastDefs) # {}) =>
        /\ last.error # NoError
        /\ ~RegistryWrittenByLastRun
        /\ (~last.existed => ~TlobjectsExist(files))

\* C7: for a schema without a repeated constructor id the registry the run
\* writes has exactly one entry per definition, keyed by the ten characters
\* of its constructor id and naming its class, and LAYER is the parser's layer.
C7_RegistryOnePerDefinition ==
    (RunStands /\ last.error = NoError /\ ~DuplicateIds(LastDefs)) =>
        /\ RegistryWrittenByLastRun
        /\ files[RegistryPath].layer = last.scheme.layer
        /\ Len(files[RegistryPath].entries) = Len(LastDefs)
        /\ \A i \in 1..Len(LastDefs) :
              LET hits == {j \in 1..Len(files[RegistryPath].entries) :
                              LET key == files[RegistryPath].entries[j].key
                              IN  /\ Len(key) = 10
                                  /\ SubSeq(key, 1, 2) = <<"0", "x">>
                                  /\ HexValue(SubSeq(key, 3, 10)) = LastDefs[i].id}
              IN  /\ Cardinality(hits) = 1
                  /\ \A j \in hits :
                        LET class == files[RegistryPath].entries[j].class
                        IN  /\ class[1] = (IF LastDefs[i].is_function
                                           THEN "functions" ELSE "types")
                            /\ class[Len(class)] = LastDefs[i].name
                            /\ (LastDefs[i].namespace # ""
                                  => class = <<class[1], LastDefs[i].namespace,
                                               LastDefs[i].name>>)

\* a run over functions and types, one of them with a short constructor id
C7_Witness ==
    /\ RunStands /\ last.error = NoError /\ ~DuplicateIds(LastDefs)
    /\ Len(LastDefs) >= 3
    /\ \E t \in Range(LastDefs) : t.is_function
    /\ \E t \in Range(LastDefs) : ~t.is_function /\ Len(HexDigits(t.id)) < 8
    /\ RegistryWrittenByLastRun

----------------------------------------------------------------------------
(* Properties of the generated classes.                                    *)

\* the constructor fields of the class the behaviour follows
Fields == Range(KeptArgs(tlobject))
Present(name) == self[name] # None

\* C1: decoding the bytes an instance encodes to gives an instance whose
\* every constructor field equals the original's.
C1_RoundTrip ==
    op = "from_reader" =>
        /\ out.ok
        /\ \A a \in Fields : out.attrs[a.name] = self[a.name]

\* the flag fields of the class that share their flag index with one other
CoIndexed ==
    {pair \in SUBSET {a \in Fields : a.is_flag} :
        /\ Cardinality(pair) = 2
        /\ \A a, b \in pair : a.flag_index = b.flag_index
        /\ \A c \in Fields :
              (c.is_flag /\ \E a \in pair : a.flag_index = c.flag_index)
                  => c \in pair}

\* C2: of two fields that share a flag index, encoding succeeds when both
\* are present or both absent and raises when exactly one is present.
C2_CoIndexedPresence ==
    op = "__bytes__" =>
        \A pair \in CoIndexed :
            out.ok <=> (\A a, b \in pair : Present(a.name) <=> Present(b.name))

\* the response of a server that sends n longs behind the vector
\* constructor and an 8-byte count
LongsResponse(xs) ==
    <<21, 196, 181, 28>> \o Pack(Len(xs), 8)
                         \o Concat([i \in 1..Len(xs) |-> Pack(xs[i], 8)])

\* C4: on_response of a request that returns Vector<long> skips a 4-byte
\* constructor id, reads a long as the count and then that many longs, with
\* no call to the generic object reader.
C4_VectorLongResponse ==
    (op = "on_response" /\ tlobject.result = "Vector<long>") =>
        /\ out.calls = {"read_int", "read_long"}
        /\ \A xs \in SeqsUpTo(ResponseLongs, MaxVecLen) :
              out.data = LongsResponse(xs) =>
                  /\ out.ok
                  /\ self["result"] = ListV([i \in 1..Len(xs) |-> IntV(xs[i])])
C4_Witness ==
    /\ op = "on_response" /\ tlobject.result = "Vector<long>"
    /\ out.data = LongsResponse(<<7, -3, 7>>)
    /\ out.ok
    /\ self["result"] = ListV(<<IntV(7), IntV(-3), IntV(7)>>)

\* byte k of the little-endian two's complement form of n
RECURSIVE ShiftRight(_, _)
ShiftRight(n, k) == IF k = 0 THEN n ELSE ShiftRight(n \div 256, k - 1)
LittleEndianByte(n, k) ==
    IF n >= 0 THEN ShiftRight(n, k) % 256
    ELSE 255 - (ShiftRight(-n - 1, k) % 256)
LittleEndian(n, size) == [i \in 1..size |-> LittleEndianByte(n, i - 1)]

\* the classes whose one field is a vector of integers
OneVectorClasses == {vecHolder, bareHolder}
VectorField == tlobject.args[1]
ElementSize == IF VectorField.type = "long" THEN 8 ELSE 4

\* C8: a vector field is encoded as the vector constructor 0x1cb5c415 when
\* the field says so, a 4-byte little-endian count and the elements in
\* order; decoding consumes the same and gives the list back.
C8_VectorFraming ==
    /\ (op = "__bytes__" /\ tlobject \in OneVectorClasses) =>
          LET xs == self[VectorField.name].v
          IN  /\ out.ok
              /\ out.bytes =
                    LittleEndian(tlobject.id, 4)
                    \o (IF VectorField.use_vector_id
                        THEN <<21, 196, 181, 28>> ELSE <<>>)
                    \o LittleEndian(Len(xs), 4)
                    \o Concat([i \in 1..Len(xs) |->
                                  LittleEndian(xs[i].v, ElementSize)])
    /\ (op = "__bytes__" /\ tlobject = vecHolder
            /\ self["ids"] = ListV(<<IntV(1), IntV(2), IntV(3)>>)) =>
          out.bytes = <<22, 196, 181, 28,  21, 196, 181, 28,  3, 0, 0, 0,
                        1, 0, 0, 0,  2, 0, 0, 0,  3, 0, 0, 0>>
    /\ (op = "from_reader" /\ tlobject \in OneVectorClasses) =>
          /\ out.ok
          /\ out.pos = Len(out.data)
          /\ out.attrs[VectorField.name] = self[VectorField.name]
C8_Witness ==
    /\ op = "from_reader" /\ tlobject = vecHolder
    /\ out.data = <<22, 196, 181, 28,  21, 196, 181, 28,  3, 0, 0, 0,
                    1, 0, 0, 0,  2, 0, 0, 0,  3, 0, 0, 0>>
    /\ out.ok
    /\ out.attrs["ids"] = ListV(<<IntV(1), IntV(2), IntV(3)>>)

\* the fields of the definition that are neither the flags indicator nor a
\* generic definition
ParameterFields ==
    {a \in Range(tlobject.args) : ~a.flag_indicator /\ ~a.generic_definition}
Omitted == {a \in ParameterFields : a.name \notin DOMAIN call}

\* C9: the constructor takes one parameter per field that is neither the
\* flags indicator nor a generic definition; a parameter may be left out,
\* and is then None, exactly when its field can be inferred.
C9_OptionalIffInferred ==
    op # "none" =>
        /\ DOMAIN call \subseteq {a.name : a \in ParameterFields}
        /\ {p.name : p \in Range(InitParams(tlobject))}
              = {a.name : a \in ParameterFields}
        /\ \A a \in Omitted : a.can_be_inferred

\* C9, as the code has it: a parameter may be left out exactly when its
\* field is a flag field or can be inferred; every other field is required,
\* and a flag field that is left out is None.
C9_OptionalIffFlagOrInferred ==
    op # "none" =>
        /\ DOMAIN call \subseteq {a.name : a \in ParameterFields}
        /\ {p.name : p \in Range(InitParams(tlobject))}
              = {a.name : a \in ParameterFields}
        /\ Len(InitParams(tlobject)) = Cardinality(ParameterFields)
        /\ \A a \in ParameterFields :
              \A p \in Range(InitParams(tlobject)) :
                 p.name = a.name => (p.optional <=> (a.is_flag \/ a.can_be_inferred))
        /\ \A a \in Omitted : a.is_flag \/ a.can_be_inferred
        /\ \A a \in Omitted : ~a.can_be_inferred => self[a.name] = None
C9_Witness ==
    /\ op = "__init__" /\ tlobject = peerNotifySettings
    /\ DOMAIN call = {"mute_until", "silent"}
    /\ self["show_previews"] = None

\* C10: in the dictionary of to_dict a vector field is a list, empty when
\* the field is absent, and never None.
C10_VectorNeverNone ==
    op = "to_dict" =>
        \A a \in Fields : a.is_vector => out.dict.v[a.name].k = "list"

\* the scalar random_id field of the class when it is an inferable long
RandomIdLong ==
    {a \in Fields : a.name = "random_id" /\ a.can_be_inferred
                    /\ a.type = "long" /\ ~a.is_vector}
Supplied(name) == name \in DOMAIN call /\ call[name] # None

\* C11: an instance built without a value for an inferable random_id of type
\* long stores a signed integer made of 8 bytes drawn from the randomness
\* source; built with a value, it stores that value and draws nothing.
C11_RandomIdInference ==
    (op # "none" /\ RandomIdLong # {}) =>
        IF Supplied("random_id")
        THEN self["random_id"] = call["random_id"] /\ drawn = <<>>
        ELSE /\ Len(drawn) = 1 /\ Len(drawn[1]) = 8
             /\ drawn[1] = <<255, 255, 255, 255, 255, 255, 255, 255>>
                   => self["random_id"] = IntV(-1)
             /\ drawn[1] = <<0, 0, 0, 0, 0, 0, 0, 9>>
                   => self["random_id"] = IntV(9)
             /\ self["random_id"] \in {IntV(-1), IntV(9)}
C11_Witness ==
    /\ op = "__init__" /\ RandomIdLong # {}
    /\ ~Supplied("random_id")
    /\ drawn = <<<<0, 0, 0, 0, 0, 0, 0, 9>>>>
    /\ self["random_id"] = IntV(9)

\* the fields of the class that have one of the loose input types
InputFields ==
    {a \in Fields : ~a.can_be_inferred
                    /\ a.type \in {"InputPeer", "InputChannel", "InputUser",
                                   "InputMedia", "InputPhoto"}}
\* the adapter of InputPeer applied to x, or to each element of x
Adapted(a, x) ==
    IF a.is_vector
    THEN ListV([i \in 1..Len(x.v) |-> GetInput("get_input_peer", x.v[i])])
    ELSE GetInput("get_input_peer", x)

\* C12: a field of a loose input type goes through its adapter exactly when
\* the class is a function, element by element when it is a vector, and a
\* flag field is stored as None, the adapter not called, when the caller
\* passed no value; a type stores the value as it is.
C12_AdaptedUnlessNoValue ==
    op # "none" =>
        \A a \in InputFields :
            self[a.name] =
                IF ~tlobject.is_function THEN Param(call, a.name)
                ELSE IF a.is_flag /\ Param(call, a.name) = None THEN None
                ELSE Adapted(a, Param(call, a.name))

\* C12, as the code has it: a flag field is stored as None, the adapter not
\* called, when the value passed is false-y, which an empty list is too.
C12_AdaptedUnlessFalsy ==
    op # "none" =>
        \A a \in InputFields :
            self[a.name] =
                IF ~tlobject.is_function THEN Param(call, a.name)
                ELSE IF a.is_flag /\ Param(call, a.name) \in {None, ListV(<<>>)}
                     THEN None
                ELSE Adapted(a, Param(call, a.name))
C12_Witness ==
    /\ op = "__init__" /\ tlobject = setPeers
    /\ "peers" \in DOMAIN call
    /\ call["peers"] = ListV(<<ObjV(peerUser, [n \in {"user_id"} |-> IntV(7)])>>)
    /\ self["peers"] = ListV(<<ObjV(inputPeerUser, [n \in {"user_id"} |-> IntV(7)])>>)

\* the flag indices of the class, and those with a field that is neither
\* None nor False
FlagIndices == {a.flag_index : a \in {b \in Fields : b.is_flag}}
SetIndices ==
    {i \in FlagIndices :
        \E a \in Fields : a.is_flag /\ a.flag_index = i
                          /\ self[a.name] # None /\ self[a.name] # BoolV(FALSE)}
RECURSIVE MaskOf(_)
MaskOf(indices) ==
    IF indices = {} THEN 0
    ELSE MaskOf(indices \ {CHOOSE i \in indices : \A j \in indices : i >= j})
         + 2 ^ (CHOOSE i \in indices : \A j \in indices : i >= j)
\* the classes that begin with the flag indicator
HasIndicator == Len(tlobject.args) > 0 /\ tlobject.args[1].flag_indicator

BitInData(index) == (out.data[5] \div (2 ^ index)) % 2 = 1
\* absent flag fields of type true aside, the fields from_reader reads
ReadFromData ==
    {a \in Fields : ~(a.is_flag /\ a.type = "true")
                    /\ (a.is_flag => BitInData(a.flag_index))}

\* C14: from_reader gives a flag field of type true the value of its bit and
\* reads nothing for it; it reads any other flag field only when its bit is
\* set and gives it None otherwise; every field has its variable when the
\* class is called.
C14_FlagFieldsDecoded ==
    (op = "from_reader" /\ out.ok /\ HasIndicator) =>
        /\ DOMAIN out.kw = {a.name : a \in ParameterFields}
        /\ \A a \in {b \in Fields : b.is_flag} :
              IF a.type = "true"
              THEN out.kw[a.name] = BoolV(BitInData(a.flag_index))
              ELSE (out.kw[a.name] = None) <=> ~BitInData(a.flag_index)
        /\ tlobject \in {peerNotifySettings, coPair} =>
              out.pos = 8 + 4 * Cardinality(ReadFromData)
C14_Witness ==
    /\ op = "from_reader" /\ out.ok /\ tlobject = peerNotifySettings
    /\ out.data[5] = 1
    /\ out.kw["silent"] = BoolV(TRUE) /\ out.kw["show_previews"] = None
    /\ out.pos = 12 /\ Len(out.data) = 12

----------------------------------------------------------------------------
(* Properties of write_to_bytes and write_read_code at generation time.    *)

\* C15: when write_to_bytes or write_read_code returns, is_vector and
\* is_flag of its argument are what they were when it was called and no
\* marker of another argument has changed; an argument's markers differ
\* from the parser's only while a call on it is in progress.
C15_TogglesRestored ==
    /\ returned.fn # "none" => returned.after = returned.before
    /\ frames = <<>> => targs = loaded
    /\ \A j \in 1..Len(targs) :
          targs[j] # loaded[j] => \E k \in 1..Len(frames) : frames[k].i = j
C15_Witness ==
    /\ returned.fn = "write_read_code" /\ frames = <<>>
    /\ loaded[returned.i].is_vector /\ loaded[returned.i].is_flag
    /\ loaded[returned.i].type = "int"
    /\ returned.after = loaded

----------------------------------------------------------------------------
(* Encoder and decoder of a generated class, taken together.               *)

\* the flag fields that are written, those of type true never being
ValueFlags == {a \in Fields : a.is_flag /\ a.type # "true"}
\* those __bytes__ writes bytes for, and those from_reader will read given
\* the flags __bytes__ wrote
Emitted == {a \in ValueFlags : self[a.name] # None /\ self[a.name] # BoolV(FALSE)}
ToBeRead == {a \in ValueFlags : (out.bytes[5] \div (2 ^ a.flag_index)) % 2 = 1}

\* C16: whenever __bytes__ succeeds, the flag fields it writes bytes for are
\* the flag fields from_reader reads given the flags written, and from_reader
\* consumes exactly the bytes written; also when of two fields that share a
\* flag index one is false-y but present and the other None.
C16_EncoderDecoderInStep ==
    /\ (op = "__bytes__" /\ out.ok /\ HasIndicator) => Emitted = ToBeRead
    /\ (op = "from_reader" /\ HasIndicator) =>
          out.ok /\ out.pos = Len(out.data)

====
